---- MODULE Spec2Model ----
(***************************************************************************)
(* A model of pagina.py, the Streamlit chat page of gerador-playlist.      *)
(*                                                                         *)
(* Streamlit executes the script top to bottom on every rerun of a         *)
(* session; st.session_state is the only state that survives a rerun.      *)
(* One script run is modelled as a walk of pc through the script:          *)
(*   idle -> load -> configure -> seed -> input -> generate -> loop        *)
(*        -> (search -> loop)* -> return -> append -> idle                 *)
(* A run that ends in st.stop() or in an uncaught exception goes back to   *)
(* idle with lastRun recording how it ended.                               *)
(*                                                                         *)
(* Text is a sequence of one-character strings, so that strip, split and   *)
(* the regular expression of generate_playlist are computed character by   *)
(* character.  The two fixed sentences the page returns are written in     *)
(* ASCII (the source has accented letters and an emoji in them).           *)
(* Python's None is the empty tuple, a value v that is not None is <<v>>.  *)
(***************************************************************************)
EXTENDS Integers, Sequences, FiniteSets, TLC

VARIABLES
    env,                  \* the process environment / secret store (fixed)
    GEMINI_API_KEY,       \* script global, reloaded by every run
    YOUTUBE_API_KEY,      \* script global, reloaded by every run
    session_state,        \* st.session_state: a function on a subset of {"messages"}
    pc,                   \* position of the current script run
    lastRun,              \* how the previous script run ended
    chat_input,           \* the text st.chat_input returns in this run (None if none)
    song_recommendations, \* generate_playlist: the lines of the response
    lineIdx,              \* generate_playlist: index of the line the loop is at
    video_ids,            \* generate_playlist: the identifiers collected
    inflight,             \* the search request being executed (None if none)
    response,             \* the value generate_playlist returned (None before)
    turns,                \* history: number of user inputs accepted in the session
    genLog,               \* history: generation requests of the current run, as they ended
    searchLog             \* history: search calls of the current run, in order

vars == <<env, GEMINI_API_KEY, YOUTUBE_API_KEY, session_state, pc, lastRun,
          chat_input, song_recommendations, lineIdx, video_ids, inflight,
          response, turns, genLog, searchLog>>

-----------------------------------------------------------------------------
(* Bounds of the model *)

MaxTurns == 2      \* user inputs accepted in one session
MaxLines == 2      \* lines of a generation response in Spec
MaxTextLen == 7    \* characters of a generation response in SpecTurn

-----------------------------------------------------------------------------
(* Values *)

None == <<>>
Some(v) == <<v>>

\* Python truthiness of an optional string: None and "" are falsy.
Truthy(o) == o /= None /\ o[1] /= ""

Min(S) == CHOOSE m \in S : \A n \in S : m <= n
Max(S) == CHOOSE m \in S : \A n \in S : m >= n

NL == "\n"
Alphabet == {"a", "b", " ", "|", NL}

\* str.isspace / the regular expression's \s on the characters of the model.
IsSpace(c) == c \in {" ", NL, "\t", "\r"}

-----------------------------------------------------------------------------
(* Text: str.strip, str.split and re.match, computed on character sequences *)

\* s.strip(): s without its leading and trailing whitespace.
Strip(s) ==
    LET keep == {i \in 1..Len(s) : ~IsSpace(s[i])}
    IN  IF keep = {} THEN <<>> ELSE SubSeq(s, Min(keep), Max(keep))

\* s.split('\n'): the pieces of s between newlines; always at least one piece.
RECURSIVE Split(_)
Split(s) ==
    LET at == {i \in 1..Len(s) : s[i] = NL}
    IN  IF at = {} THEN <<s>>
        ELSE <<SubSeq(s, 1, Min(at) - 1)>> \o Split(SubSeq(s, Min(at) + 1, Len(s)))

\* The regular expression's "." : any character but a newline.
Dot(c) == c /= NL

\* Length of the run of whitespace of s that starts at position i.
WsRun(s, i) ==
    LET stop == {j \in i..Len(s) : ~IsSpace(s[j])}
    IN  IF stop = {} THEN Len(s) - i + 1 ELSE Min(stop) - i

\* Length of the run of "." characters of s that starts at position i.
DotRun(s, i) ==
    LET stop == {j \in i..Len(s) : ~Dot(s[j])}
    IN  IF stop = {} THEN Len(s) - i + 1 ELSE Min(stop) - i

\* Position of the "|" the pattern reaches when group 1 is s[1..k]:
\* \s* is greedy and "|" is not whitespace, so \s* takes the whole run.
PipeAt(s, k) == k + WsRun(s, k + 1) + 1

\* Start positions group 2 can have when the "|" is at p: \s* gives back
\* whitespace until (.+) has a first character.
Group2Starts(s, p) ==
    {q \in (p + 1)..(p + 1 + WsRun(s, p + 1)) : q <= Len(s) /\ Dot(s[q])}

\* The lengths k of group 1 for which the whole pattern matches at the start.
MatchLens(s) ==
    {k \in 1..Len(s) :
        /\ \A i \in 1..k : Dot(s[i])
        /\ PipeAt(s, k) <= Len(s)
        /\ s[PipeAt(s, k)] = "|"
        /\ Group2Starts(s, PipeAt(s, k)) /= {}}

\* A pattern that falls back to the whole line as the title when the line
\* has no separator.
ReMatchOrWholeLine(line) ==
    IF MatchLens(line) = {} THEN <<line, <<>>>>
    ELSE LET k == Min(MatchLens(line))
             q == Max(Group2Starts(line, PipeAt(line, k)))
         IN  <<SubSeq(line, 1, k), SubSeq(line, q, q + DotRun(line, q) - 1)>>

\* re.match(r"(.+?)\s*\|\s*(.+)", line): None, or match.groups().
\* (.+?) is lazy: the shortest group 1; \s* and (.+) are greedy.
ReMatch(line) ==
    IF MatchLens(line) = {} THEN None
    ELSE LET k == Min(MatchLens(line))
             q == Max(Group2Starts(line, PipeAt(line, k)))
         IN  <<SubSeq(line, 1, k), SubSeq(line, q, q + DotRun(line, q) - 1)>>

\* The groups taken as they are, the artist not stripped.
CandidateArtistUnstripped(line) ==
    LET m == ReMatch(line) IN <<Strip(m[1]), m[2]>>

\* Lines 77-78: song, artist = match.groups(), both stripped.
Candidate(line) ==
    LET m == ReMatch(line) IN <<Strip(m[1]), Strip(m[2])>>

\* Line 38: the query string of a candidate.
Query(song_title, artist) ==
    song_title \o <<" ">> \o artist \o <<" ", "official", " ", "audio">>

\* Line 69: response.text.strip().split('\n')
SongRecommendations(text) == Split(Strip(text))

-----------------------------------------------------------------------------
(* The services and the fixed texts *)

\* A credential as the environment or the secret store holds it:
\* absent, the empty string, or a key.
KeyValues == {None, Some(""), Some("key")}

\* What the user may type into st.chat_input.
Prompts == {"grunge", "shoegaze"}

\* Identifiers the search service may return.
VideoIds == {"id1", "id2"}

\* youtube.search().list(..., maxResults=1).execute(): it raises, or it
\* answers with at most one item.
SearchOutcomes ==
    {[raises |-> TRUE, items |-> <<>>]}
        \cup {[raises |-> FALSE, items |-> it] :
                it \in {<<>>} \cup {<<id>> : id \in VideoIds}}

\* Line 104, the seeded message.
Greeting ==
    [role |-> "assistant",
     content |-> "Ola! Descreva as bandas, musicas ou o estilo que voce curte e eu criarei uma playlist para voce."]

\* Line 92.
Apology ==
    "Desculpe, nao consegui encontrar videos para as musicas recomendadas. Tente ser mais especifico."

\* The identifiers joined newest first.
RECURSIVE JoinIdsNewestFirst(_)
JoinIdsNewestFirst(ids) ==
    IF ids = <<>> THEN ""
    ELSE IF Len(ids) = 1 THEN ids[1]
    ELSE JoinIdsNewestFirst(Tail(ids)) \o "," \o ids[1]

\* Line 88: ",".join(video_ids)
RECURSIVE JoinIds(_)
JoinIds(ids) ==
    IF ids = <<>> THEN ""
    ELSE IF Len(ids) = 1 THEN ids[1]
    ELSE ids[1] \o "," \o JoinIds(Tail(ids))

\* Line 89.
PlaylistUrl(ids) ==
    "https://www.youtube.com/watch_videos?video_ids=" \o JoinIds(ids)

\* Line 90.
SuccessMessage(url) ==
    "Playlist pronta!\n\n[Clique aqui para ouvir no YouTube](" \o url \o ")"

\* A playlist only for two identifiers or more.
PlaylistResultNeedsTwo(ids) ==
    IF Len(ids) > 1 THEN SuccessMessage(PlaylistUrl(ids)) ELSE Apology

\* Lines 87-92: what generate_playlist returns for the collected identifiers.
PlaylistResult(ids) ==
    IF ids /= <<>> THEN SuccessMessage(PlaylistUrl(ids)) ELSE Apology

\* get_youtube_video_id without its try/except: the exception leaves it.
GetYoutubeVideoIdUncaught(o) ==
    IF o.raises THEN [raised |-> TRUE, value |-> None]
    ELSE IF o.items /= <<>> THEN [raised |-> FALSE, value |-> Some(o.items[1])]
    ELSE [raised |-> FALSE, value |-> None]

\* Lines 37-46: get_youtube_video_id on an outcome of the search call.
\* raised tells whether an exception leaves the function.
GetYoutubeVideoId(o) ==
    IF o.raises THEN [raised |-> FALSE, value |-> None]
    ELSE IF o.items /= <<>> THEN [raised |-> FALSE, value |-> Some(o.items[1])]
    ELSE [raised |-> FALSE, value |-> None]

\* The identifier collected twice.
CollectVideoIdTwice(ids, video_id) ==
    IF Truthy(video_id) THEN Append(Append(ids, video_id[1]), video_id[1]) ELSE ids

\* Lines 81-82: if video_id: video_ids.append(video_id)
CollectVideoId(ids, video_id) ==
    IF Truthy(video_id) THEN Append(ids, video_id[1]) ELSE ids

\* The check with "and" for "or": it stops only when both keys are missing.
KeysMissingBoth(g, y) == ~Truthy(g) /\ ~Truthy(y)

\* Line 22: not GEMINI_API_KEY or not YOUTUBE_API_KEY
KeysMissing(g, y) == ~Truthy(g) \/ ~Truthy(y)

\* The history created anew by every run.
SeedMessagesEveryRun(ss) == [messages |-> <<Greeting>>]

\* Lines 103-104: the history is created only when the session has none.
SeedMessages(ss) ==
    IF "messages" \in DOMAIN ss THEN ss ELSE [messages |-> <<Greeting>>]

\* Lines 114 and 127: st.session_state.messages.append(...)
AppendMessage(ss, role, content) ==
    [ss EXCEPT !.messages = Append(@, [role |-> role, content |-> content])]

-----------------------------------------------------------------------------
(* Inputs *)

SeqsUpTo(S, n) == UNION {[1..k -> S] : k \in 0..n}

\* Every generation response of at most MaxTextLen characters.
AllTexts == SeqsUpTo(Alphabet, MaxTextLen)

\* Responses built from whole lines: one in the instructed format, one not.
SampleLines == {<<"a", " ", "|", " ", "b">>, <<"a">>}

RECURSIVE JoinLines(_)
JoinLines(ls) ==
    IF ls = <<>> THEN <<>>
    ELSE IF Len(ls) = 1 THEN ls[1]
    ELSE ls[1] \o <<NL>> \o JoinLines(Tail(ls))

SampleTexts == {JoinLines(ls) : ls \in SeqsUpTo(SampleLines, MaxLines)}

-----------------------------------------------------------------------------
(* The script run *)

keys == <<GEMINI_API_KEY, YOUTUBE_API_KEY>>
locals == <<song_recommendations, lineIdx, video_ids, inflight, response>>
history == <<turns, genLog, searchLog>>

\* The chat box exists in the browser only if the previous run reached line 112.
ChatBoxShown == lastRun \in {"complete", "exception in turn"}

\* Streamlit starts a run of the script: the page is opened or refreshed
\* (input = None), or the user submits a text in the chat box.
StartRun(input) ==
    /\ pc = "idle"
    /\ input /= None => ChatBoxShown /\ turns < MaxTurns
    /\ pc' = "load"
    /\ chat_input' = input
    /\ GEMINI_API_KEY' = None
    /\ YOUTUBE_API_KEY' = None
    /\ song_recommendations' = <<>>
    /\ lineIdx' = 1
    /\ video_ids' = <<>>
    /\ inflight' = None
    /\ response' = None
    /\ genLog' = <<>>
    /\ searchLog' = <<>>
    /\ UNCHANGED <<env, session_state, lastRun, turns>>

\* The run ends before the page is drawn: st.stop(), or an exception at
\* module level.
HaltRun(how) ==
    /\ pc' = "idle"
    /\ lastRun' = how

\* Lines 11-24: load the two keys and check them.
LoadKeys ==
    /\ pc = "load"
    /\ IF env.dotenv
         THEN /\ GEMINI_API_KEY' = env.gemini
              /\ YOUTUBE_API_KEY' = env.youtube
              /\ IF KeysMissing(env.gemini, env.youtube)
                   THEN HaltRun("stopped")
                   ELSE pc' = "configure" /\ UNCHANGED lastRun
         ELSE \* st.secrets[...] raises when the secret is absent
              IF env.gemini = None
                THEN HaltRun("exception at startup") /\ UNCHANGED keys
              ELSE IF env.youtube = None
                THEN /\ HaltRun("exception at startup")
                     /\ GEMINI_API_KEY' = env.gemini
                     /\ UNCHANGED YOUTUBE_API_KEY
              ELSE /\ GEMINI_API_KEY' = env.gemini
                   /\ YOUTUBE_API_KEY' = env.youtube
                   /\ IF KeysMissing(env.gemini, env.youtube)
                        THEN HaltRun("stopped")
                        ELSE pc' = "configure" /\ UNCHANGED lastRun
    /\ UNCHANGED <<env, session_state, chat_input, locals, history>>

\* Lines 27-33: configure the two clients; any exception stops the run.
ConfigureAPIs ==
    /\ pc = "configure"
    /\ IF env.apisOK
         THEN pc' = "seed" /\ UNCHANGED lastRun
         ELSE HaltRun("stopped")
    /\ UNCHANGED <<env, keys, session_state, chat_input, locals, history>>

\* Lines 98-109: draw the page, create the history if the session has none,
\* display the history.
RenderPage ==
    /\ pc = "seed"
    /\ session_state' = SeedMessages(session_state)
    /\ pc' = "input"
    /\ UNCHANGED <<env, keys, lastRun, chat_input, locals, history>>

\* Lines 112-116: the chat box; with a text, the user message is appended.
ChatInput ==
    /\ pc = "input"
    /\ IF Truthy(chat_input)
         THEN /\ session_state' = AppendMessage(session_state, "user", chat_input[1])
              /\ turns' = turns + 1
              /\ pc' = "generate"
              /\ UNCHANGED lastRun
         ELSE /\ pc' = "idle"
              /\ lastRun' = "complete"
              /\ UNCHANGED <<session_state, turns>>
    /\ UNCHANGED <<env, keys, chat_input, locals, genLog, searchLog>>

\* Line 68 in a try/except that answers with the apology.
GenerateRaisesCaught ==
    /\ pc' = "append"
    /\ response' = Some(Apology)
    /\ UNCHANGED <<session_state, lastRun, song_recommendations, lineIdx,
                   video_ids, inflight>>

\* Line 68 raises: nothing in generate_playlist or in the chat block catches
\* it, so the exception ends the run.
GenerateRaises ==
    /\ pc' = "idle"
    /\ lastRun' = "exception in turn"
    /\ UNCHANGED <<session_state, locals>>

\* Lines 68-71: the generation request and the split of its text.
GenerateContent(texts) ==
    /\ pc = "generate"
    /\ \/ /\ genLog' = Append(genLog, "raised")
          /\ GenerateRaises
       \/ \E text \in texts :
            /\ genLog' = Append(genLog, "text")
            /\ song_recommendations' = SongRecommendations(text)
            /\ lineIdx' = 1
            /\ video_ids' = <<>>
            /\ pc' = "loop"
            /\ UNCHANGED <<session_state, lastRun, inflight, response>>
    /\ UNCHANGED <<env, keys, chat_input, turns, searchLog>>

\* Lines 74-76: a line the pattern does not match is skipped.
SkipLine ==
    /\ pc = "loop"
    /\ lineIdx <= Len(song_recommendations)
    /\ ReMatch(song_recommendations[lineIdx]) = None
    /\ lineIdx' = lineIdx + 1
    /\ UNCHANGED <<env, keys, session_state, pc, lastRun, chat_input,
                   song_recommendations, video_ids, inflight, response, history>>

\* Lines 76-80 and 38-40: a matching line gives a candidate, and the search
\* request for it is sent.
SearchRequest ==
    /\ pc = "loop"
    /\ lineIdx <= Len(song_recommendations)
    /\ ReMatch(song_recommendations[lineIdx]) /= None
    /\ LET c == Candidate(song_recommendations[lineIdx])
       IN  inflight' = Some([song |-> c[1], artist |-> c[2], q |-> Query(c[1], c[2])])
    /\ pc' = "search"
    /\ UNCHANGED <<env, keys, session_state, lastRun, chat_input,
                   song_recommendations, lineIdx, video_ids, response, history>>

\* Lines 40-46 and 80-82: the search call returns or raises, and the
\* identifier, if any, is collected.
SearchResponse ==
    /\ pc = "search"
    /\ \E o \in SearchOutcomes :
         LET r == GetYoutubeVideoId(o)
         IN  /\ searchLog' = Append(searchLog,
                    [song |-> inflight[1].song, artist |-> inflight[1].artist,
                     line |-> lineIdx, outcome |-> o, returned |-> r.value])
             /\ inflight' = None
             /\ IF r.raised
                  THEN /\ pc' = "idle"
                       /\ lastRun' = "exception in turn"
                       /\ UNCHANGED <<lineIdx, video_ids>>
                  ELSE /\ video_ids' = CollectVideoId(video_ids, r.value)
                       /\ lineIdx' = lineIdx + 1
                       /\ pc' = "loop"
                       /\ UNCHANGED lastRun
    /\ UNCHANGED <<env, keys, session_state, chat_input, song_recommendations,
                   response, turns, genLog>>

\* Lines 84-92: the loop is over and generate_playlist returns.
ReturnPlaylist ==
    /\ pc = "loop"
    /\ lineIdx > Len(song_recommendations)
    /\ response' = Some(PlaylistResult(video_ids))
    /\ pc' = "append"
    /\ UNCHANGED <<env, keys, session_state, lastRun, chat_input,
                   song_recommendations, lineIdx, video_ids, inflight, history>>

\* Lines 124-127: the answer is displayed and appended to the history.
AppendAssistant ==
    /\ pc = "append"
    /\ session_state' = AppendMessage(session_state, "assistant", response[1])
    /\ pc' = "idle"
    /\ lastRun' = "complete"
    /\ UNCHANGED <<env, keys, chat_input, locals, history>>

-----------------------------------------------------------------------------
(* The session: any environment, any sequence of runs *)

Init ==
    /\ env \in [dotenv : BOOLEAN, gemini : KeyValues, youtube : KeyValues,
                apisOK : BOOLEAN]
    /\ GEMINI_API_KEY = None
    /\ YOUTUBE_API_KEY = None
    /\ session_state = <<>>
    /\ pc = "idle"
    /\ lastRun = "none"
    /\ chat_input = None
    /\ song_recommendations = <<>>
    /\ lineIdx = 1
    /\ video_ids = <<>>
    /\ inflight = None
    /\ response = None
    /\ turns = 0
    /\ genLog = <<>>
    /\ searchLog = <<>>

Next ==
    \/ \E input \in {None} \cup {Some(p) : p \in Prompts} : StartRun(input)
    \/ LoadKeys
    \/ ConfigureAPIs
    \/ RenderPage
    \/ ChatInput
    \/ GenerateContent(SampleTexts)
    \/ SkipLine
    \/ SearchRequest
    \/ SearchResponse
    \/ ReturnPlaylist
    \/ AppendAssistant

Spec == Init /\ [][Next]_vars

-----------------------------------------------------------------------------
(* One turn: the run of a session in which the first input was accepted,   *)
(* from the generation request on, with every text of at most MaxTextLen   *)
(* characters as the response.                                             *)

InitTurn ==
    /\ env = [dotenv |-> TRUE, gemini |-> Some("key"), youtube |-> Some("key"),
              apisOK |-> TRUE]
    /\ GEMINI_API_KEY = Some("key")
    /\ YOUTUBE_API_KEY = Some("key")
    /\ session_state = AppendMessage(SeedMessages(<<>>), "user", "grunge")
    /\ pc = "generate"
    /\ lastRun = "complete"
    /\ chat_input = Some("grunge")
    /\ song_recommendations = <<>>
    /\ lineIdx = 1
    /\ video_ids = <<>>
    /\ inflight = None
    /\ response = None
    /\ turns = 1
    /\ genLog = <<>>
    /\ searchLog = <<>>

NextTurn ==
    \/ GenerateContent(AllTexts)
    \/ SkipLine
    \/ SearchRequest
    \/ SearchResponse
    \/ ReturnPlaylist
    \/ AppendAssistant

SpecTurn == InitTurn /\ [][NextTurn]_vars

-----------------------------------------------------------------------------
(* Quantities the properties are stated in *)

HasMessages == "messages" \in DOMAIN session_state
Messages == session_state["messages"]

\* A credential that is absent or empty.
Missing(k) == k = None \/ k = Some("")

\* The run has ended and no other has started.
RunOver == pc = "idle" /\ lastRun /= "none"

IsPrefix(s, t) == Len(s) <= Len(t) /\ SubSeq(t, 1, Len(s)) = s

-----------------------------------------------------------------------------
(* The history *)

\* C1: after N user turns the history has exactly 1 + 2N entries: the
\* greeting, then a user message and an assistant message per turn, in
\* that order.
C1_HistoryHasOnePairPerTurn ==
    (RunOver /\ HasMessages) =>
        /\ Len(Messages) = 1 + 2 * turns
        /\ Messages[1] = Greeting
        /\ \A n \in 1..turns :
                /\ Messages[2 * n].role = "user"
                /\ Messages[2 * n + 1].role = "assistant"

\* What one step of the script may do to the history.
C10_Step ==
    /\ HasMessages =>
            /\ "messages" \in DOMAIN session_state'
            /\ IsPrefix(Messages, session_state'["messages"])
            /\ Messages[1] = Greeting
    /\ session_state' /= session_state =>
            \/ /\ ~HasMessages
               /\ session_state' = [messages |-> <<Greeting>>]
            \/ /\ HasMessages
               /\ pc = "input"
               /\ chat_input /= None
               /\ genLog = <<>> /\ searchLog = <<>> /\ response = None
               /\ session_state'["messages"] =
                      Append(Messages, [role |-> "user", content |-> chat_input[1]])
            \/ /\ HasMessages
               /\ pc = "append"
               /\ response /= None
               /\ genLog = <<"text">>
               /\ lineIdx > Len(song_recommendations)
               /\ session_state'["messages"] =
                      Append(Messages, [role |-> "assistant", content |-> response[1]])

\* C10: the history is append-only.  It is created, with the greeting
\* alone, only when the session has none, and the greeting stays first; a
\* step changes it only by appending one message at the end: the user's
\* text, before any request of the turn is made, or the assistant message
\* whose content is the value generate_playlist returned in this run.
C10_HistoryAppendOnly == [][C10_Step]_vars

\* A refresh of the page after two answered turns: the history of five
\* messages went through a run that had nothing to append.
C10_Witness ==
    /\ RunOver
    /\ chat_input = None
    /\ HasMessages
    /\ Len(Messages) = 5
    /\ Messages[5].role = "assistant"

-----------------------------------------------------------------------------
(* Startup *)

\* C7: with a credential missing, every run halts before the page is drawn:
\* the history is never created, no input is accepted and no generation or
\* search request is made.
C7_MissingKeyHaltsAtStartup ==
    (Missing(env.gemini) \/ Missing(env.youtube)) =>
        /\ pc \in {"idle", "load"}
        /\ ~HasMessages
        /\ chat_input = None
        /\ turns = 0
        /\ genLog = <<>>
        /\ searchLog = <<>>
        /\ inflight = None
        /\ lastRun \in {"none", "stopped", "exception at startup"}

\* A run was made with the generation key set and the search key empty,
\* and it was stopped.
C7_Witness ==
    /\ env.gemini = Some("key")
    /\ Missing(env.youtube)
    /\ RunOver
    /\ lastRun = "stopped"

-----------------------------------------------------------------------------
(* Failure of the generation request *)

\* C8: when the generation request raises, the run ends there with the
\* exception: generate_playlist returns nothing (neither the playlist
\* message nor the apology), no search request is made, and no assistant
\* message is appended after the user's.
C8_GenerationFailureEndsTurn ==
    ("raised" \in {genLog[i] : i \in DOMAIN genLog}) =>
        /\ pc = "idle"
        /\ lastRun = "exception in turn"
        /\ response = None
        /\ searchLog = <<>>
        /\ inflight = None
        /\ Messages[Len(Messages)] = [role |-> "user", content |-> chat_input[1]]

C8_Witness ==
    /\ genLog = <<"raised">>
    /\ RunOver
    /\ turns = 2

-----------------------------------------------------------------------------
(* Quantities of one turn, computed from the lines and from the log of the *)
(* search calls rather than by the operators of generate_playlist          *)

Lines == song_recommendations

\* generate_playlist has returned in this run.
Returned == response /= None

\* The identifiers the search service answered with, in the order of the calls.
RECURSIVE IdsFound(_)
IdsFound(log) ==
    IF log = <<>> THEN <<>>
    ELSE (IF ~Head(log).outcome.raises /\ Head(log).outcome.items /= <<>>
            THEN <<Head(log).outcome.items[1]>>
            ELSE <<>>) \o IdsFound(Tail(log))

\* The first n identifiers with a comma between neighbours.
RECURSIVE CommaJoined(_, _)
CommaJoined(ids, n) ==
    IF n = 0 THEN ""
    ELSE IF n = 1 THEN ids[1]
    ELSE CommaJoined(ids, n - 1) \o "," \o ids[n]

\* The calls of the log are in the order of the lines, one per line at most.
InLineOrder(log) ==
    \A i, j \in DOMAIN log : i < j => log[i].line < log[j].line

Pipes(line) == {p \in 1..Len(line) : line[p] = "|"}

\* "A | B": one pipe, with text before it and after it.
WellFormed(line) ==
    /\ Cardinality(Pipes(line)) = 1
    /\ \A p \in Pipes(line) : 1 < p /\ p < Len(line)

PartA(line) == SubSeq(line, 1, Min(Pipes(line)) - 1)
PartB(line) == SubSeq(line, Min(Pipes(line)) + 1, Len(line))

RECURSIVE LTrim(_)
LTrim(s) == IF s /= <<>> /\ IsSpace(Head(s)) THEN LTrim(Tail(s)) ELSE s

RECURSIVE RTrim(_)
RTrim(s) ==
    IF s /= <<>> /\ IsSpace(s[Len(s)]) THEN RTrim(SubSeq(s, 1, Len(s) - 1)) ELSE s

Trimmed(s) == RTrim(LTrim(s))

\* A line that gives a candidate: it has a pipe with a character before it
\* and a character after it.
Separable(line) == \E p \in Pipes(line) : 1 < p /\ p < Len(line)

\* The lines among the first n that give a candidate.
CandidateLines(n) == {i \in 1..n : i <= Len(Lines) /\ Separable(Lines[i])}

\* The lines the loop is done with.
LinesDone == IF pc = "generate" THEN 0 ELSE lineIdx - 1

SearchedLines == {searchLog[j].line : j \in DOMAIN searchLog}

-----------------------------------------------------------------------------
(* The playlist *)

\* C2: when a candidate resolves, the returned message has the URL
\* https://www.youtube.com/watch_videos?video_ids=<ids>, <ids> being the
\* identifiers the search calls answered with, comma-joined in the order of
\* the candidates' lines, duplicates kept, nothing for a candidate that did
\* not resolve.
C2_UrlJoinsResolvedIdsInOrder ==
    (Returned /\ IdsFound(searchLog) /= <<>>) =>
        /\ InLineOrder(searchLog)
        /\ response[1] =
              "Playlist pronta!\n\n[Clique aqui para ouvir no YouTube]("
                \o "https://www.youtube.com/watch_videos?video_ids="
                \o CommaJoined(IdsFound(searchLog), Len(IdsFound(searchLog)))
                \o ")"

\* Two candidates, id2 found for the first and id1 for the second.
C2_Witness ==
    /\ Len(searchLog) = 2
    /\ searchLog[1].outcome.items = <<"id2">>
    /\ searchLog[2].outcome.items = <<"id1">>
    /\ response = Some("Playlist pronta!\n\n[Clique aqui para ouvir no YouTube](https://www.youtube.com/watch_videos?video_ids=id2,id1)")

\* C3: generate_playlist returns the apology exactly when no candidate
\* resolved, whatever the cause; otherwise the success message with the
\* URL.  A completed turn has no other answer.
C3_ApologyIffNothingResolved ==
    Returned =>
        /\ (response[1] = Apology) <=> (IdsFound(searchLog) = <<>>)
        /\ response[1] /= Apology =>
                response[1] = SuccessMessage(PlaylistUrl(IdsFound(searchLog)))
        /\ RunOver => Messages[Len(Messages)] =
                          [role |-> "assistant", content |-> response[1]]

\* Two candidates were searched, both calls raised, the answer is the apology.
C3_Witness ==
    /\ response = Some(Apology)
    /\ Len(searchLog) = 2
    /\ \A j \in DOMAIN searchLog : searchLog[j].outcome.raises

-----------------------------------------------------------------------------
(* The parser *)

\* C4: a line "A | B" gives the candidate (A trimmed, B trimmed) and one
\* search call; when every line of the response is such a line, there are as
\* many candidates, and search calls, as lines, the i-th for the i-th line.
C4_WellFormedLinesGiveTheirCandidates ==
    /\ \A i \in 1..LinesDone :
            WellFormed(Lines[i]) =>
                \E j \in DOMAIN searchLog :
                    /\ searchLog[j].line = i
                    /\ searchLog[j].song = Trimmed(PartA(Lines[i]))
                    /\ searchLog[j].artist = Trimmed(PartB(Lines[i]))
    /\ (Returned /\ \A i \in DOMAIN Lines : WellFormed(Lines[i])) =>
            /\ Len(searchLog) = Len(Lines)
            /\ \A i \in DOMAIN Lines : searchLog[i].line = i

\* The response "a|b", newline, "b|a": two lines, two candidates.
C4_Witness ==
    /\ Returned
    /\ Lines = << <<"a", "|", "b">>, <<"b", "|", "a">> >>
    /\ Len(searchLog) = 2
    /\ searchLog[1].song = <<"a">> /\ searchLog[1].artist = <<"b">>
    /\ searchLog[2].song = <<"b">> /\ searchLog[2].artist = <<"a">>

\* C5: a line with no pipe separator (no pipe, or a pipe with nothing before
\* it or nothing after it) gives no candidate: no search call is made for it
\* and it adds no identifier, and the other lines of the response are
\* processed all the same.
C5_LinesWithoutPipeAreDropped ==
    /\ \A i \in DOMAIN Lines :
            ~Separable(Lines[i]) =>
                /\ i \notin SearchedLines
                /\ ~(pc = "search" /\ lineIdx = i)
    /\ Len(video_ids) <= Cardinality({i \in DOMAIN Lines : Separable(Lines[i])})
    /\ Returned =>
            \A i \in DOMAIN Lines : WellFormed(Lines[i]) => i \in SearchedLines

\* The response "ab", newline, "a|b": the first line is dropped, the second
\* is searched and resolves.
C5_Witness ==
    /\ Returned
    /\ Lines = << <<"a", "b">>, <<"a", "|", "b">> >>
    /\ SearchedLines = {2}
    /\ Len(video_ids) = 1

-----------------------------------------------------------------------------
(* The search calls *)

\* C6: a search call that raises counts as a search with no result:
\* get_youtube_video_id returns None, the exception does not leave the
\* turn, the candidates after it are searched, and the identifiers that
\* were found are in the answer.
C6_SearchErrorIsNoResult ==
    /\ \A j \in DOMAIN searchLog :
            (searchLog[j].outcome.raises \/ searchLog[j].outcome.items = <<>>)
                => searchLog[j].returned = None
    /\ searchLog /= <<>> => lastRun /= "exception in turn"
    /\ pc /= "generate" => SearchedLines = CandidateLines(LinesDone)
    /\ (pc = "idle" /\ searchLog /= <<>>) => Returned
    /\ video_ids = IdsFound(searchLog)
    /\ Returned => /\ LinesDone = Len(Lines)
                   /\ response[1] = PlaylistResult(IdsFound(searchLog))

\* The first search raised, the second found id1, and the turn was answered
\* with the playlist of id1.
C6_Witness ==
    /\ RunOver
    /\ Len(searchLog) = 2
    /\ searchLog[1].outcome.raises
    /\ searchLog[2].outcome.items = <<"id1">>
    /\ response = Some(SuccessMessage(PlaylistUrl(<<"id1">>)))

\* C9: a turn makes one generation request and then, one after the other
\* in the order of the lines, one search request per candidate; a candidate
\* gives at most one identifier: identifiers <= candidates <= lines.
C9_OneRequestAtATime ==
    /\ Len(genLog) <= 1
    /\ pc = "generate" => genLog = <<>> /\ searchLog = <<>> /\ inflight = None
    /\ pc \in {"loop", "search", "append"} => genLog = <<"text">>
    /\ (searchLog /= <<>> \/ inflight /= None) => genLog = <<"text">>
    /\ (inflight /= None) <=> (pc = "search")
    /\ InLineOrder(searchLog)
    /\ pc /= "generate" =>
            /\ SearchedLines = CandidateLines(LinesDone)
            /\ Len(searchLog) = Cardinality(CandidateLines(LinesDone))
            /\ pc = "search" => lineIdx \in CandidateLines(lineIdx)
            /\ Returned => LinesDone = Len(Lines)
    /\ Len(video_ids) <= Len(searchLog)
    /\ Len(searchLog) <= Len(Lines)

\* Three lines, one candidate, no identifier.
C9_Witness ==
    /\ Returned
    /\ Len(Lines) = 3
    /\ Len(searchLog) = 1
    /\ video_ids = <<>>

====
